---- MODULE Spec2Model ----
(***************************************************************************)
(* Model of the binharness agent server: the resource state store          *)
(* (bh_agent_server/src/state.rs) and the service handlers                 *)
(* (bh_agent_server/src/server.rs).  Every handler runs on its own thread; *)
(* one step of the model is one lock acquisition of the code together with *)
(* the statements executed until the next acquisition that can block.      *)
(*                                                                         *)
(* Table write guards are taken and dropped within one statement, so a     *)
(* write guard is never seen held; read guards that outlive a statement    *)
(* (do_mut_operation) are recorded in `readers`.  A read is granted        *)
(* whenever no write guard is held: writers waiting for a table do not     *)
(* hold back new readers.  Under Spec file contents are kept as a length   *)
(* only.  The bytes are followed in three specifications of their own:     *)
(* SpecText (one call of read_chars), SpecLines (one call of split_lines)  *)
(* and SpecIo (one client reading, writing and seeking through an Update   *)
(* descriptor, one call at a time).                                        *)
(***************************************************************************)
EXTENDS Integers, Sequences, FiniteSets, TLC

\* ------------------------------------------------------------------ bounds
MaxFileId == 2          \* FileIds 0 .. MaxFileId-1 can be issued
MaxProcId == 1          \* ProcessIds 0 .. MaxProcId-1 can be issued
MaxLen == 1             \* largest file length / file position kept

NumThreads == 2         \* concurrently running call handlers
Threads == 1 .. NumThreads

\* ------------------------------------------------------------ input domains
EnvIds == {0, 1}
Paths == {"a"}
FdArgs == 0 .. (MaxFileId - 1)
PidArgs == 0 .. (MaxFileId - 1)
Seeks == {<<0, -1>>, <<1, 1>>, <<2, 0>>, <<3, 0>>}   \* <<whence, offset>>
OpenModes == {"Read", "Write"}    \* modes the clients of this model open with
OpenTypes == {"Binary"}           \* types the clients of this model open with
Counts == {1}
DataLens == {1}

FileOpenMode == {"Read", "Write", "ExclusiveWrite", "Append", "Update"}
FileOpenType == {"Binary", "Text"}
ProcessChannel == {"Stdin", "Stdout", "Stderr"}
Redirection == {"None", "Save"}

TableNames == {"files", "file_modes", "file_types", "processes",
               "proc_stdin_ids", "proc_stdout_ids", "proc_stderr_ids"}

IoOps == {"file_read", "file_read_lines", "file_seek", "file_write"}
FdOps == IoOps \cup {"file_close", "file_is_closed", "file_is_readable",
                     "file_is_writable", "file_is_seekable", "file_tell"}
OpNames == FdOps \cup {"get_tempdir", "get_process_channel"}

VARIABLES
    files,            \* FileId -> open File: [pos, rd, wr, app, path, lock]
    file_modes,       \* FileId -> FileOpenMode
    file_types,       \* FileId -> FileOpenType
    processes,        \* ProcessId -> Popen: [stdin, stdout, stderr, lock, poisoned]
    proc_stdin_ids,   \* FileId -> ProcessId
    proc_stdout_ids,  \* FileId -> ProcessId
    proc_stderr_ids,  \* FileId -> ProcessId
    next_file_id,
    next_process_id,
    readers,          \* table name -> threads holding its read guard
    fs,               \* path -> file length, -1 when the path does not exist
    os_procs,         \* number of child processes spawned so far
    pc,               \* thread -> position in its handler
    call,             \* thread -> the request it serves
    loc,              \* thread -> handler locals
    res,              \* thread -> response
    issued,           \* history: FileIds in the order take_file_id returned them
    closed,           \* history: FileIds on which close_file succeeded
    chan_alloc,       \* history: <<pid, channel, FileId>> allocated by run_command
    \* one call of read_chars (util/read_chars.rs)
    text,             \* the characters of the stream, each as its UTF-8 bytes
    reader,           \* the bytes the reader has not handed out yet
    count,            \* the number of characters asked for
    result,           \* what read_chars returned
    \* one call of split_lines (util/read_lines.rs)
    buffer,           \* the bytes given to split_lines
    lines,            \* what split_lines returned
    \* one client working on one file through an Update handle, with contents
    disk,             \* the bytes of the file
    upd_file,         \* the open File: [open, pos, type]
    trail             \* the last calls of the client with their responses

vars == <<files, file_modes, file_types, processes, proc_stdin_ids,
          proc_stdout_ids, proc_stderr_ids, next_file_id, next_process_id,
          readers, fs, os_procs, pc, call, loc, res, issued, closed,
          chan_alloc, text, reader, count, result, buffer, lines, disk,
          upd_file, trail>>

tables == <<files, file_modes, file_types, processes, proc_stdin_ids,
            proc_stdout_ids, proc_stderr_ids>>
counters == <<next_file_id, next_process_id>>
history == <<issued, closed, chan_alloc>>
os == <<fs, os_procs>>
server_vars == <<tables, counters, readers, os, pc, call, loc, res, history>>
text_vars == <<text, reader, count, result>>
lines_vars == <<buffer, lines>>
io_vars == <<disk, upd_file, trail>>
\* the state of the content-level specifications, idle while the server runs
unit_vars == <<text_vars, lines_vars, io_vars>>

\* server state a client can depend on: tables, counters, OS files
server_state == <<files, file_modes, file_types, processes, proc_stdin_ids,
                  proc_stdout_ids, proc_stderr_ids, next_file_id,
                  next_process_id, fs, os_procs>>

\* ----------------------------------------------------------------- helpers
Insert(f, k, v) == [x \in DOMAIN f \cup {k} |-> IF x = k THEN v ELSE f[x]]
RemoveKeepsEntry(f, k) == f
Remove(f, k) == [x \in DOMAIN f \ {k} |-> f[x]]
Empty == [x \in {} |-> 0]
Min(a, b) == IF a < b THEN a ELSE b
Max(a, b) == IF a > b THEN a ELSE b

NoRes == [tag |-> "none", val |-> 0, err |-> "-"]
Ok(v) == [tag |-> "ok", val |-> v, err |-> "-"]
Err(e) == [tag |-> "err", val |-> 0, err |-> e]
Panic == [tag |-> "panic", val |-> 0, err |-> "-"]

NoCall == [op |-> "-", env |-> 0, fd |-> 0, pid |-> 0, chan |-> "-",
           path |-> "-", mode |-> "-", type |-> "-", whence |-> 0,
           offset |-> 0, n |-> 0, stdin |-> "-", stdout |-> "-",
           stderr |-> "-", spawn_ok |-> TRUE]
NoLoc == [file_id |-> -1, proc_id |-> -1, chan |-> "-", table |-> "-"]

\* server.rs check_env_id!: the call is rejected unless env_id is 0
check_env_id_missing(env_id) == FALSE
check_env_id(env_id) == env_id # 0

Finish(t, r) ==
    /\ pc' = [pc EXCEPT ![t] = "done"]
    /\ res' = [res EXCEPT ![t] = r]

Goto(t, label) ==
    /\ pc' = [pc EXCEPT ![t] = label]
    /\ UNCHANGED res

\* a handler's response is observed in the state right after its last step;
\* the thread is then freed (Return) before any other step is taken
At(t, label) ==
    /\ pc[t] = label
    /\ \A u \in Threads : pc[u] # "done"

\* a write guard can be taken when no thread holds a read guard; write guards
\* themselves are never held across a blocking point
WriteFreeAlways(tbl) == TRUE
WriteFree(tbl) == readers[tbl] = {}

\* nothing has been handed to read_chars or split_lines, no Update session
NotRun == [done |-> FALSE, out |-> <<>>]
Returned(v) == [done |-> TRUE, out |-> v]
NoFile == [open |-> FALSE, pos |-> 0, type |-> "-"]
TextIdle == text = <<>> /\ reader = <<>> /\ count = 0 /\ result = NotRun
LinesIdle == buffer = <<>> /\ lines = NotRun
IoIdle == disk = <<>> /\ upd_file = NoFile /\ trail = <<>>

\* BhAgentState::new: empty tables, counters at 0, no handler running
InitServer ==
    /\ files = Empty
    /\ file_modes = Empty
    /\ file_types = Empty
    /\ processes = Empty
    /\ proc_stdin_ids = Empty
    /\ proc_stdout_ids = Empty
    /\ proc_stderr_ids = Empty
    /\ next_file_id = 0
    /\ next_process_id = 0
    /\ readers = [n \in TableNames |-> {}]
    /\ fs = [p \in Paths |-> -1]
    /\ os_procs = 0
    /\ pc = [t \in Threads |-> "idle"]
    /\ call = [t \in Threads |-> NoCall]
    /\ loc = [t \in Threads |-> NoLoc]
    /\ res = [t \in Threads |-> NoRes]
    /\ issued = <<>>
    /\ closed = {}
    /\ chan_alloc = {}

Init == InitServer /\ TextIdle /\ LinesIdle /\ IoIdle

\* ------------------------------------------------------------ call entry
\* the requests a client can send (service.rs, BhAgentService)
Calls ==
    {[NoCall EXCEPT !.op = "get_environments"]}
    \cup {[NoCall EXCEPT !.op = "get_tempdir"]}
    \cup {[NoCall EXCEPT !.op = o, !.fd = f] :
             o \in FdOps \ {"file_read", "file_seek", "file_write"},
             f \in FdArgs}
    \cup {[NoCall EXCEPT !.op = "file_read", !.fd = f, !.n = k] :
             f \in FdArgs, k \in Counts}
    \cup {[NoCall EXCEPT !.op = "file_write", !.fd = f, !.n = k] :
             f \in FdArgs, k \in DataLens}
    \cup {[NoCall EXCEPT !.op = "file_seek", !.fd = f, !.whence = sk[1],
                         !.offset = sk[2]] :
             f \in FdArgs, sk \in Seeks}
    \cup {[NoCall EXCEPT !.op = "file_open", !.path = p, !.mode = m,
                         !.type = ty] :
             p \in Paths, m \in OpenModes, ty \in OpenTypes}
    \cup {[NoCall EXCEPT !.op = "run_command", !.stdin = a, !.stdout = b,
                         !.stderr = c] :
             a \in Redirection, b \in Redirection, c \in Redirection}
    \cup {[NoCall EXCEPT !.op = "run_command", !.stdin = "None",
                         !.stdout = "Save", !.stderr = "None",
                         !.spawn_ok = FALSE]}
    \cup {[NoCall EXCEPT !.op = "get_process_channel", !.pid = p,
                         !.chan = ch] :
             p \in PidArgs, ch \in ProcessChannel}
    \* the same requests addressed to an environment that does not exist
    \cup {[NoCall EXCEPT !.op = o, !.env = e] :
             o \in OpNames, e \in EnvIds \ {0}}
    \cup {[NoCall EXCEPT !.op = "file_seek", !.env = e, !.whence = sk[1],
                         !.offset = sk[2]] :
             e \in EnvIds \ {0}, sk \in {x \in Seeks : x[1] \notin {0, 1, 2}}}
    \cup {[NoCall EXCEPT !.op = "file_open", !.env = e, !.path = p,
                         !.mode = "Write", !.type = "Binary"] :
             e \in EnvIds \ {0}, p \in Paths}
    \cup {[NoCall EXCEPT !.op = "run_command", !.env = e, !.stdin = "Save",
                         !.stdout = "Save", !.stderr = "Save"] :
             e \in EnvIds \ {0}}

\* the channels a launch request pipes, in the order run_command handles them
ChanOrder == <<"Stdin", "Stdout", "Stderr">>
Piped(c, ch) ==
    CASE ch = "Stdin" -> c.stdin = "Save"
      [] ch = "Stdout" -> c.stdout = "Save"
      [] ch = "Stderr" -> c.stderr = "Save"
PipedFrom(c, i) == {j \in i .. 3 : Piped(c, ChanOrder[j])}
ChanIndex(ch) == CHOOSE i \in 1 .. 3 : ChanOrder[i] = ch

\* ids a handler will still take from the counters (keeps the counters bounded)
FileIdsToTake(t) ==
    CASE pc[t] = "open_take_id" -> 1
      [] pc[t] = "run_take_pid" -> Cardinality(PipedFrom(call[t], 1))
      [] pc[t] = "run_take_id" ->
            Cardinality(PipedFrom(call[t], ChanIndex(loc[t].chan)))
      [] pc[t] = "run_insert_id" ->
            Cardinality(PipedFrom(call[t], ChanIndex(loc[t].chan) + 1))
      [] OTHER -> 0
FileIdsOf(c) ==
    CASE c.op = "file_open" -> 1
      [] c.op = "run_command" -> Cardinality(PipedFrom(c, 1))
      [] OTHER -> 0
ProcIdsToTake(t) == IF pc[t] = "run_take_pid" THEN 1 ELSE 0
ProcIdsOf(c) == IF c.op = "run_command" THEN 1 ELSE 0

RECURSIVE SumFileIds(_)
SumFileIds(S) ==
    IF S = {} THEN 0
    ELSE LET x == CHOOSE y \in S : TRUE
         IN FileIdsToTake(x) + SumFileIds(S \ {x})
RECURSIVE SumProcIds(_)
SumProcIds(S) ==
    IF S = {} THEN 0
    ELSE LET x == CHOOSE y \in S : TRUE
         IN ProcIdsToTake(x) + SumProcIds(S \ {x})

\* a request arrives and an idle handler thread starts serving it
CallsOf(op) == {c \in Calls : c.op = op}
Begin(t, c) ==
    /\ At(t, "idle")
    /\ next_file_id + SumFileIds(Threads) + FileIdsOf(c) <= MaxFileId
    /\ next_process_id + SumProcIds(Threads) + ProcIdsOf(c) <= MaxProcId
    /\ call' = [call EXCEPT ![t] = c]

\* the response is sent and the handler ends
Return(t) ==
    /\ pc[t] = "done"
    /\ pc' = [pc EXCEPT ![t] = "idle"]
    /\ call' = [call EXCEPT ![t] = NoCall]
    /\ loc' = [loc EXCEPT ![t] = NoLoc]
    /\ res' = [res EXCEPT ![t] = NoRes]
    /\ UNCHANGED <<tables, counters, readers, os, history>>
    /\ UNCHANGED unit_vars

\* ------------------------------------------------------- state.rs operators
\* take_file_id: the id handed out and the counter left behind
take_file_id_no_increment(n) == [id |-> n, next |-> n]
take_file_id(n) == [id |-> n, next |-> n + 1]

\* take_proc_id
take_proc_id(n) == [id |-> n, next |-> n + 1]

\* file_has_any_mode: looks the descriptor up in the mode table
file_has_any_mode(fd, modes) ==
    IF fd \in DOMAIN file_modes
    THEN Ok(IF file_modes[fd] \in modes THEN 1 ELSE 0)
    ELSE Err("InvalidFileDescriptor")

\* file_type: looks the descriptor up in the type table
file_type(fd) ==
    IF fd \in DOMAIN file_types THEN Ok(0) ELSE Err("InvalidFileDescriptor")

\* is_file_closed: contains_key on the file table
is_file_closed(fd) == Ok(IF fd \in DOMAIN files THEN 1 ELSE 0)

\* get_process_channel: the channel's index table, read with proc_id as the key
ChannelTable(channel) ==
    CASE channel = "Stdin" -> proc_stdin_ids
      [] channel = "Stdout" -> proc_stdout_ids
      [] channel = "Stderr" -> proc_stderr_ids
get_process_channel(proc_id, channel) ==
    IF proc_id \in DOMAIN ChannelTable(channel)
    THEN Ok(ChannelTable(channel)[proc_id])
    ELSE Err("InvalidProcessId")

\* OpenOptions of open_path: does the OS open succeed on a path of length len
\* (-1: no such file), and the length of the file afterwards
OsOpenOkAlways(len, mode) == TRUE
OsOpenOk(len, mode) ==
    CASE mode = "Read" -> len >= 0
      [] mode = "Write" -> TRUE
      [] mode = "ExclusiveWrite" -> len = -1
      [] mode = "Append" -> len >= 0
      [] mode = "Update" -> len >= 0
OsOpenLen(len, mode) == IF len = -1 THEN 0 ELSE len

\* the File that open_path stores: position 0, access as the flags allow
NewFile(path, mode) ==
    [path |-> path, pos |-> 0,
     rd |-> mode \in {"Read", "Update"},
     wr |-> mode \in {"Write", "ExclusiveWrite", "Append", "Update"},
     app |-> mode = "Append",
     lock |-> {}]

\* ------------------------------------------------- handlers without locks held
GetEnvironments(t) ==
    \E c \in CallsOf("get_environments") :
        /\ Begin(t, c)
        /\ Finish(t, Ok(0))
        /\ UNCHANGED <<tables, counters, readers, os, loc, history>>
        /\ UNCHANGED unit_vars

GetTempdir(t) ==
    \E c \in CallsOf("get_tempdir") :
        /\ Begin(t, c)
        /\ Finish(t, IF check_env_id(c.env)
                     THEN Err("InvalidEnvironmentId") ELSE Ok(0))
        /\ UNCHANGED <<tables, counters, readers, os, loc, history>>
        /\ UNCHANGED unit_vars

GetProcessChannel(t) ==
    \E c \in CallsOf("get_process_channel") :
        /\ Begin(t, c)
        /\ Finish(t, IF check_env_id(c.env)
                     THEN Err("InvalidEnvironmentId")
                     ELSE get_process_channel(c.pid, c.chan))
        /\ UNCHANGED <<tables, counters, readers, os, loc, history>>
        /\ UNCHANGED unit_vars

FileIsClosed(t) ==
    \E c \in CallsOf("file_is_closed") :
        /\ Begin(t, c)
        /\ Finish(t, IF check_env_id(c.env)
                     THEN Err("InvalidEnvironmentId")
                     ELSE is_file_closed(c.fd))
        /\ UNCHANGED <<tables, counters, readers, os, loc, history>>
        /\ UNCHANGED unit_vars

FileIsReadable(t) ==
    \E c \in CallsOf("file_is_readable") :
        /\ Begin(t, c)
        /\ Finish(t, IF check_env_id(c.env)
                     THEN Err("InvalidEnvironmentId")
                     ELSE file_has_any_mode(c.fd, {"Read", "Update"}))
        /\ UNCHANGED <<tables, counters, readers, os, loc, history>>
        /\ UNCHANGED unit_vars

FileIsWritable(t) ==
    \E c \in CallsOf("file_is_writable") :
        /\ Begin(t, c)
        /\ Finish(t, IF check_env_id(c.env)
                     THEN Err("InvalidEnvironmentId")
                     ELSE file_has_any_mode(c.fd,
                            {"Write", "ExclusiveWrite", "Update", "Append"}))
        /\ UNCHANGED <<tables, counters, readers, os, loc, history>>
        /\ UNCHANGED unit_vars

\* file_is_seekable and file_tell: todo!() after the environment check
FileIsSeekable(t) ==
    \E c \in CallsOf("file_is_seekable") :
        /\ Begin(t, c)
        /\ Finish(t, IF check_env_id(c.env)
                     THEN Err("InvalidEnvironmentId") ELSE Panic)
        /\ UNCHANGED <<tables, counters, readers, os, loc, history>>
        /\ UNCHANGED unit_vars

FileTell(t) ==
    \E c \in CallsOf("file_tell") :
        /\ Begin(t, c)
        /\ Finish(t, IF check_env_id(c.env)
                     THEN Err("InvalidEnvironmentId") ELSE Panic)
        /\ UNCHANGED <<tables, counters, readers, os, loc, history>>
        /\ UNCHANGED unit_vars

\* ------------------------------------------------------ file_open, open_path
FileOpen(t) ==
    \E c \in CallsOf("file_open") :
        /\ Begin(t, c)
        /\ IF check_env_id(c.env)
           THEN /\ Finish(t, Err("InvalidEnvironmentId"))
                /\ UNCHANGED fs
           ELSE IF ~OsOpenOk(fs[c.path], c.mode)
           THEN /\ Finish(t, Err("IoError"))
                /\ UNCHANGED fs
           ELSE /\ fs' = [fs EXCEPT ![c.path] = OsOpenLen(@, c.mode)]
                /\ Goto(t, "open_take_id")
        /\ UNCHANGED <<tables, counters, readers, os_procs, loc, history>>
        /\ UNCHANGED unit_vars

OpenTakeId(t) ==
    /\ At(t, "open_take_id")
    /\ LET r == take_file_id(next_file_id) IN
        /\ next_file_id' = r.next
        /\ loc' = [loc EXCEPT ![t].file_id = r.id]
        /\ issued' = Append(issued, r.id)
    /\ Goto(t, "open_insert_file")
    /\ UNCHANGED <<tables, next_process_id, readers, os, call, closed, chan_alloc>>
    /\ UNCHANGED unit_vars

OpenInsertFile(t) ==
    /\ At(t, "open_insert_file")
    /\ WriteFree("files")
    /\ files' = Insert(files, loc[t].file_id, NewFile(call[t].path, call[t].mode))
    /\ Goto(t, "open_insert_mode")
    /\ UNCHANGED <<file_modes, file_types, processes, proc_stdin_ids,
                   proc_stdout_ids, proc_stderr_ids, counters, readers, os,
                   call, loc, history>>
    /\ UNCHANGED unit_vars

OpenInsertMode(t) ==
    /\ At(t, "open_insert_mode")
    /\ WriteFree("file_modes")
    /\ file_modes' = Insert(file_modes, loc[t].file_id, call[t].mode)
    /\ Goto(t, "open_insert_type")
    /\ UNCHANGED <<files, file_types, processes, proc_stdin_ids,
                   proc_stdout_ids, proc_stderr_ids, counters, readers, os,
                   call, loc, history>>
    /\ UNCHANGED unit_vars

OpenInsertType(t) ==
    /\ At(t, "open_insert_type")
    /\ WriteFree("file_types")
    /\ file_types' = Insert(file_types, loc[t].file_id, call[t].type)
    /\ Finish(t, Ok(loc[t].file_id))
    /\ UNCHANGED <<files, file_modes, processes, proc_stdin_ids,
                   proc_stdout_ids, proc_stderr_ids, counters, readers, os,
                   call, loc, history>>
    /\ UNCHANGED unit_vars

\* ----------------------------------------------------- file_close, close_file
FileClose(t) ==
    \E c \in CallsOf("file_close") :
        /\ Begin(t, c)
        /\ IF check_env_id(c.env)
           THEN Finish(t, Err("InvalidEnvironmentId"))
           ELSE Goto(t, "close_file")
        /\ UNCHANGED <<tables, counters, readers, os, loc, history>>
        /\ UNCHANGED unit_vars

CloseFile(t) ==
    /\ At(t, "close_file")
    /\ WriteFree("files")
    /\ IF call[t].fd \in DOMAIN files
       THEN /\ files' = Remove(files, call[t].fd)
            /\ closed' = closed \cup {call[t].fd}
            /\ Finish(t, Ok(0))
       ELSE /\ UNCHANGED <<files, closed>>
            /\ Finish(t, Err("InvalidFileDescriptor"))
    /\ UNCHANGED <<file_modes, file_types, processes, proc_stdin_ids,
                   proc_stdout_ids, proc_stderr_ids, counters, readers, os,
                   call, loc, issued, chan_alloc>>
    /\ UNCHANGED unit_vars

\* ---------------------------------------------------- run_command (state.rs)
\* the index table in which run_command records a channel's FileId
run_command_index(chan) ==
    CASE chan = "Stdin" -> "proc_stdin_ids"
      [] chan = "Stdout" -> "proc_stdout_ids"
      [] chan = "Stderr" -> "proc_stdout_ids"

\* the Popen that run_command stores: the streams that were piped
NewPopen(c) ==
    [stdin |-> c.stdin = "Save", stdout |-> c.stdout = "Save",
     stderr |-> c.stderr = "Save", lock |-> {}, poisoned |-> FALSE]

\* continue run_command at the first piped channel of index >= i, or at the
\* insertion into the process table
RunNext(t, i, l) ==
    IF PipedFrom(call[t], i) = {}
    THEN /\ loc' = [loc EXCEPT ![t] = l]
         /\ Goto(t, "run_insert_proc")
    ELSE /\ loc' = [loc EXCEPT ![t] =
                      [l EXCEPT !.chan = ChanOrder[
                         CHOOSE j \in PipedFrom(call[t], i) :
                            \A k \in PipedFrom(call[t], i) : j <= k]]]
         /\ Goto(t, "run_take_id")

RunCommand(t) ==
    \E c \in CallsOf("run_command") :
        /\ Begin(t, c)
        /\ IF check_env_id(c.env)
           THEN /\ Finish(t, Err("InvalidEnvironmentId"))
                /\ UNCHANGED os_procs
           ELSE IF ~c.spawn_ok
           THEN /\ Finish(t, Err("ProcessStartFailure"))
                /\ UNCHANGED os_procs
           ELSE /\ os_procs' = os_procs + 1
                /\ Goto(t, "run_take_pid")
        /\ UNCHANGED <<tables, counters, readers, fs, loc, history>>
        /\ UNCHANGED unit_vars

RunTakePid(t) ==
    /\ At(t, "run_take_pid")
    /\ LET r == take_proc_id(next_process_id) IN
        /\ next_process_id' = r.next
        /\ RunNext(t, 1, [loc[t] EXCEPT !.proc_id = r.id])
    /\ UNCHANGED <<tables, next_file_id, readers, os, call, history>>
    /\ UNCHANGED unit_vars

RunTakeId(t) ==
    /\ At(t, "run_take_id")
    /\ LET r == take_file_id(next_file_id) IN
        /\ next_file_id' = r.next
        /\ loc' = [loc EXCEPT ![t].file_id = r.id]
        /\ issued' = Append(issued, r.id)
        /\ chan_alloc' = chan_alloc \cup {<<loc[t].proc_id, loc[t].chan, r.id>>}
    /\ Goto(t, "run_insert_id")
    /\ UNCHANGED <<tables, next_process_id, readers, os, call, closed>>
    /\ UNCHANGED unit_vars

RunInsertId(t) ==
    /\ At(t, "run_insert_id")
    /\ LET tbl == run_command_index(loc[t].chan) IN
        /\ WriteFree(tbl)
        /\ proc_stdin_ids' = IF tbl = "proc_stdin_ids"
              THEN Insert(proc_stdin_ids, loc[t].file_id, loc[t].proc_id)
              ELSE proc_stdin_ids
        /\ proc_stdout_ids' = IF tbl = "proc_stdout_ids"
              THEN Insert(proc_stdout_ids, loc[t].file_id, loc[t].proc_id)
              ELSE proc_stdout_ids
        /\ proc_stderr_ids' = IF tbl = "proc_stderr_ids"
              THEN Insert(proc_stderr_ids, loc[t].file_id, loc[t].proc_id)
              ELSE proc_stderr_ids
    /\ RunNext(t, ChanIndex(loc[t].chan) + 1, loc[t])
    /\ UNCHANGED <<files, file_modes, file_types, processes, counters,
                   readers, os, call, history>>
    /\ UNCHANGED unit_vars

RunInsertProc(t) ==
    /\ At(t, "run_insert_proc")
    /\ WriteFree("processes")
    /\ processes' = Insert(processes, loc[t].proc_id, NewPopen(call[t]))
    /\ Finish(t, Ok(loc[t].proc_id))
    /\ UNCHANGED <<files, file_modes, file_types, proc_stdin_ids,
                   proc_stdout_ids, proc_stderr_ids, counters, readers, os,
                   call, loc, history>>
    /\ UNCHANGED unit_vars

\* ------------------------------------------------ OS calls on an open File
\* MaxLen stands for the largest offset the OS accepts; a seek or write
\* beyond it fails like one beyond the real limit.
\* read(2) of up to n bytes: fails on a handle not open for reading
os_read(f, len, n) ==
    IF ~f.rd THEN [ok |-> FALSE, pos |-> f.pos, got |-> 0]
    ELSE LET got == Min(n, Max(0, len - f.pos))
         IN [ok |-> TRUE, pos |-> f.pos + got, got |-> got]

\* read_to_end
os_read_to_end(f, len) ==
    IF ~f.rd THEN [ok |-> FALSE, pos |-> f.pos, got |-> 0]
    ELSE [ok |-> TRUE, pos |-> Max(f.pos, len), got |-> Max(0, len - f.pos)]

\* lseek(2): the target must be a valid offset
SeekTarget(f, len, whence, offset) ==
    CASE whence = 0 -> offset
      [] whence = 1 -> f.pos + offset
      [] whence = 2 -> len + offset
os_seek(f, len, whence, offset) ==
    LET target == SeekTarget(f, len, whence, offset)
    IN IF target >= 0 /\ target <= MaxLen
       THEN [ok |-> TRUE, pos |-> target]
       ELSE [ok |-> FALSE, pos |-> f.pos]

\* write(2) of d bytes: at the end of the file on an append handle
os_write(f, len, d) ==
    LET at == IF f.app THEN len ELSE f.pos
    IN IF ~f.wr \/ at + d > MaxLen
       THEN [ok |-> FALSE, pos |-> f.pos, len |-> len]
       ELSE [ok |-> TRUE, pos |-> at + d, len |-> Max(len, at + d)]

\* ---------------------------------------- server.rs closures on a plain file
\* the response of the handler and the File and file length it leaves
\* file_read: read_generic after the type lookup; a Binary read returns the
\* whole n-byte buffer, a Text read the characters read
FileReadOp(c, f, len) ==
    IF file_type(c.fd).tag = "err"
    THEN [res |-> Err("IoError"), pos |-> f.pos, len |-> len]
    ELSE LET r == os_read(f, len, c.n)
         IN IF ~r.ok
            THEN [res |-> Err("IoError"), pos |-> f.pos, len |-> len]
            ELSE [res |-> Ok(IF file_types[c.fd] = "Binary" THEN c.n ELSE r.got),
                  pos |-> r.pos, len |-> len]

FileReadLinesOp(c, f, len) ==
    LET r == os_read_to_end(f, len)
    IN IF ~r.ok
       THEN [res |-> Err("IoError"), pos |-> f.pos, len |-> len]
       ELSE [res |-> Ok(0), pos |-> r.pos, len |-> len]

\* file_seek: the io::Result of the seek is discarded by .map(|_| ())
FileSeekOp(c, f, len) ==
    [res |-> Ok(0), pos |-> os_seek(f, len, c.whence, c.offset).pos, len |-> len]

\* file_write: the io::Result of the write is discarded by .map(|_| ())
FileWriteOp(c, f, len) ==
    LET r == os_write(f, len, c.n)
    IN [res |-> Ok(0), pos |-> r.pos, len |-> r.len]

FileOp(c, f, len) ==
    CASE c.op = "file_read" -> FileReadOp(c, f, len)
      [] c.op = "file_read_lines" -> FileReadLinesOp(c, f, len)
      [] c.op = "file_seek" -> FileSeekOp(c, f, len)
      [] c.op = "file_write" -> FileWriteOp(c, f, len)

\* the same closures on a pipe end of a child process: no type is recorded
\* for it, stdin cannot be read, seeks fail and are discarded
ChannelOp(c, stream) ==
    CASE c.op = "file_read" -> Err("IoError")
      [] c.op = "file_read_lines" ->
            IF stream = "stdin" THEN Err("IoError") ELSE Ok(0)
      [] c.op = "file_seek" -> Ok(0)
      [] c.op = "file_write" -> Ok(0)

\* ------------------------------------------------- I/O handlers (server.rs)
FileRead(t) ==
    \E c \in CallsOf("file_read") :
        /\ Begin(t, c)
        /\ IF check_env_id(c.env)
           THEN Finish(t, Err("InvalidEnvironmentId"))
           ELSE Goto(t, "dmo_files")
        /\ UNCHANGED <<tables, counters, readers, os, loc, history>>
        /\ UNCHANGED unit_vars

FileReadLines(t) ==
    \E c \in CallsOf("file_read_lines") :
        /\ Begin(t, c)
        /\ IF check_env_id(c.env)
           THEN Finish(t, Err("InvalidEnvironmentId"))
           ELSE Goto(t, "dmo_files")
        /\ UNCHANGED <<tables, counters, readers, os, loc, history>>
        /\ UNCHANGED unit_vars

\* file_seek: whence is matched after the environment check
ValidWhenceAny(whence) == TRUE
ValidWhence(whence) == whence \in {0, 1, 2}
FileSeek(t) ==
    \E c \in CallsOf("file_seek") :
        /\ Begin(t, c)
        /\ IF check_env_id(c.env)
           THEN Finish(t, Err("InvalidEnvironmentId"))
           ELSE IF ~ValidWhence(c.whence)
           THEN Finish(t, Err("InvalidSeekWhence"))
           ELSE Goto(t, "dmo_files")
        /\ UNCHANGED <<tables, counters, readers, os, loc, history>>
        /\ UNCHANGED unit_vars

FileWrite(t) ==
    \E c \in CallsOf("file_write") :
        /\ Begin(t, c)
        /\ IF check_env_id(c.env)
           THEN Finish(t, Err("InvalidEnvironmentId"))
           ELSE Goto(t, "dmo_files")
        /\ UNCHANGED <<tables, counters, readers, os, loc, history>>
        /\ UNCHANGED unit_vars

\* ------------------------------------------- do_mut_operation (state.rs)
\* RwLock::write on a handle: granted when no thread holds the handle
LockShared(holders) == TRUE
LockFree(holders) == holders = {}

KeepGuards(t) == UNCHANGED readers
ReleaseGuards(t) == readers' = [n \in TableNames |-> readers[n] \ {t}]

IndexTable(name) ==
    CASE name = "proc_stdin_ids" -> proc_stdin_ids
      [] name = "proc_stdout_ids" -> proc_stdout_ids
      [] name = "proc_stderr_ids" -> proc_stderr_ids
IndexOrder == {"proc_stdin_ids", "proc_stdout_ids", "proc_stderr_ids"}
FirstIndex(hits) ==
    IF "proc_stdin_ids" \in hits THEN "proc_stdin_ids"
    ELSE IF "proc_stdout_ids" \in hits THEN "proc_stdout_ids"
    ELSE "proc_stderr_ids"
\* the stream of the Popen that a hit in an index table selects
StreamOf(name) ==
    CASE name = "proc_stdin_ids" -> "stdin"
      [] name = "proc_stdout_ids" -> "stdout"
      [] name = "proc_stderr_ids" -> "stderr"
HasStream(p, stream) ==
    CASE stream = "stdin" -> p.stdin
      [] stream = "stdout" -> p.stdout
      [] stream = "stderr" -> p.stderr

\* files.read()?.get(fd): on a hit the read guard lives until the operation
\* returns, on a miss it is dropped before the index tables are tried
DmoFiles(t) ==
    /\ At(t, "dmo_files")
    /\ IF call[t].fd \in DOMAIN files
       THEN /\ readers' = [readers EXCEPT !["files"] = @ \cup {t}]
            /\ Goto(t, "dmo_lock_file")
            /\ UNCHANGED loc
       ELSE /\ Goto(t, "dmo_channel")
            /\ UNCHANGED <<readers, loc>>
    /\ UNCHANGED <<tables, counters, os, call, history>>
    /\ UNCHANGED unit_vars

\* file_lock.write()?
DmoLockFile(t) ==
    /\ At(t, "dmo_lock_file")
    /\ LockFree(files[call[t].fd].lock)
    /\ files' = [files EXCEPT ![call[t].fd].lock = {t}]
    /\ Goto(t, "op_file")
    /\ UNCHANGED <<file_modes, file_types, processes, proc_stdin_ids,
                   proc_stdout_ids, proc_stderr_ids, counters, readers, os,
                   call, loc, history>>
    /\ UNCHANGED unit_vars

\* op(&mut File) on the plain file, then both guards are dropped
OpFile(t) ==
    /\ At(t, "op_file")
    /\ LET fd == call[t].fd
           path == files[fd].path
           r == FileOp(call[t], files[fd], fs[path]) IN
        /\ files' = [files EXCEPT ![fd].pos = r.pos, ![fd].lock = {}]
        /\ fs' = [fs EXCEPT ![path] = r.len]
        /\ Finish(t, r.res)
    /\ ReleaseGuards(t)
    /\ UNCHANGED <<file_modes, file_types, processes, proc_stdin_ids,
                   proc_stdout_ids, proc_stderr_ids, counters, os_procs,
                   call, loc, history>>
    /\ UNCHANGED unit_vars

\* the index tables in turn, stdin, stdout, stderr: on a hit that table's
\* read guard and the process table's are kept and the process is looked up
\* with unwrap(); a descriptor in no table is invalid
DmoChannel(t) ==
    /\ At(t, "dmo_channel")
    /\ LET fd == call[t].fd
           hits == {n \in IndexOrder : fd \in DOMAIN IndexTable(n)} IN
        IF hits # {}
        THEN LET name == FirstIndex(hits)
                 pid == IndexTable(name)[fd] IN
             IF pid \in DOMAIN processes
             THEN /\ readers' = [readers EXCEPT ![name] = @ \cup {t},
                                                !["processes"] = @ \cup {t}]
                  /\ loc' = [loc EXCEPT ![t].proc_id = pid, ![t].table = name]
                  /\ Goto(t, "dmo_lock_proc")
             ELSE /\ Finish(t, Panic)
                  /\ UNCHANGED <<readers, loc>>
        ELSE /\ Finish(t, Err("InvalidFileDescriptor"))
             /\ UNCHANGED <<readers, loc>>
    /\ UNCHANGED <<tables, counters, os, call, history>>
    /\ UNCHANGED unit_vars

\* procs_binding.get(pid).unwrap().write()? and the stream's as_mut().unwrap():
\* a poisoned lock is a LockError, a missing stream panics with the guard held
DmoLockProc(t) ==
    /\ At(t, "dmo_lock_proc")
    /\ LET pid == loc[t].proc_id
           p == processes[pid] IN
        /\ LockFree(p.lock)
        /\ IF p.poisoned
           THEN /\ Finish(t, Err("LockError"))
                /\ ReleaseGuards(t)
                /\ UNCHANGED processes
           ELSE IF ~HasStream(p, StreamOf(loc[t].table))
           THEN /\ Finish(t, Panic)
                /\ ReleaseGuards(t)
                /\ processes' = [processes EXCEPT ![pid].poisoned = TRUE]
           ELSE /\ processes' = [processes EXCEPT ![pid].lock = {t}]
                /\ Goto(t, "op_channel")
                /\ UNCHANGED readers
    /\ UNCHANGED <<files, file_modes, file_types, proc_stdin_ids,
                   proc_stdout_ids, proc_stderr_ids, counters, os, call, loc,
                   history>>
    /\ UNCHANGED unit_vars

\* op(file) on the pipe end, then all guards are dropped
OpChannel(t) ==
    /\ At(t, "op_channel")
    /\ processes' = [processes EXCEPT ![loc[t].proc_id].lock = {}]
    /\ Finish(t, ChannelOp(call[t], StreamOf(loc[t].table)))
    /\ ReleaseGuards(t)
    /\ UNCHANGED <<files, file_modes, file_types, proc_stdin_ids,
                   proc_stdout_ids, proc_stderr_ids, counters, os, call, loc,
                   history>>
    /\ UNCHANGED unit_vars

\* ------------------------------------------------------------ specification
Next ==
    \E t \in Threads :
        \/ Return(t)
        \/ GetEnvironments(t)
        \/ GetTempdir(t)
        \/ GetProcessChannel(t)
        \/ FileIsClosed(t)
        \/ FileIsReadable(t)
        \/ FileIsWritable(t)
        \/ FileIsSeekable(t)
        \/ FileTell(t)
        \/ FileOpen(t)
        \/ OpenTakeId(t)
        \/ OpenInsertFile(t)
        \/ OpenInsertMode(t)
        \/ OpenInsertType(t)
        \/ FileClose(t)
        \/ CloseFile(t)
        \/ RunCommand(t)
        \/ RunTakePid(t)
        \/ RunTakeId(t)
        \/ RunInsertId(t)
        \/ RunInsertProc(t)
        \/ FileRead(t)
        \/ FileReadLines(t)
        \/ FileSeek(t)
        \/ FileWrite(t)
        \/ DmoFiles(t)
        \/ DmoLockFile(t)
        \/ OpFile(t)
        \/ DmoChannel(t)
        \/ DmoLockProc(t)
        \/ OpChannel(t)

Spec == Init /\ [][Next]_vars

\* the steps by which a handler that has started goes on and ends; the OS
\* calls terminate and every lock is granted fairly: a handler whose next
\* step is possible again and again takes it
Step(t) ==
    \/ Return(t)
    \/ OpenTakeId(t)
    \/ OpenInsertFile(t)
    \/ OpenInsertMode(t)
    \/ OpenInsertType(t)
    \/ CloseFile(t)
    \/ RunTakePid(t)
    \/ RunTakeId(t)
    \/ RunInsertId(t)
    \/ RunInsertProc(t)
    \/ DmoFiles(t)
    \/ DmoLockFile(t)
    \/ OpFile(t)
    \/ DmoChannel(t)
    \/ DmoLockProc(t)
    \/ OpChannel(t)
FairSpec == Spec /\ \A t \in Threads : SF_vars(Step(t))

\* =============================================== util/read_chars.rs (bytes)
\* A byte is a number 0 .. 255, a character the sequence of its UTF-8 bytes.
MaxChars == 3           \* longest text handed to read_chars, in characters

\* the characters of the texts: one of each encoded length, 'a', U+00E9,
\* U+20AC and U+1F600
Alphabet == {<<97>>, <<195, 169>>, <<226, 130, 172>>, <<240, 159, 152, 128>>}
Texts == UNION {[1 .. k -> Alphabet] : k \in 0 .. MaxChars}
CharCounts == 0 .. (MaxChars + 1)

RECURSIVE Encode(_)
Encode(chars) ==
    IF chars = <<>> THEN <<>> ELSE Head(chars) \o Encode(Tail(chars))

\* Read::read on a Cursor or a regular file: up to k bytes, fewer only at
\* the end of the stream
Read(rest, k) ==
    LET got == Min(k, Len(rest))
    IN [bytes |-> SubSeq(rest, 1, got), rest |-> SubSeq(rest, got + 1, Len(rest))]

\* the length of the UTF-8 sequence a lead byte announces, 0 for a byte that
\* cannot start a character
Utf8Width(b) ==
    IF b < 128 THEN 1
    ELSE IF b >= 194 /\ b <= 223 THEN 2
    ELSE IF b >= 224 /\ b <= 239 THEN 3
    ELSE IF b >= 240 /\ b <= 244 THEN 4
    ELSE 0
IsContinuation(b) == b >= 128 /\ b <= 191

\* Utf8Error::valid_up_to of std::str::from_utf8(buf): the length of the
\* longest prefix of buf made of whole characters (Len(buf): from_utf8 is Ok)
ValidUpToWholeBuffer(buf) == Len(buf)
RECURSIVE ValidFrom(_, _)
ValidFrom(buf, i) ==
    IF i > Len(buf) THEN Len(buf)
    ELSE LET w == Utf8Width(buf[i])
         IN IF w = 0 \/ i + w - 1 > Len(buf) THEN i - 1
            ELSE IF \E j \in (i + 1) .. (i + w - 1) : ~IsContinuation(buf[j])
            THEN i - 1
            ELSE ValidFrom(buf, i + w)
ValidUpTo(buf) == ValidFrom(buf, 1)

\* String::chars().count() of a valid string given by its bytes
CharsCount(str) == Cardinality({i \in DOMAIN str : ~IsContinuation(str[i])})

\* the while loop of read_chars (lines 26-50): acc is `result`, buf `buffer`,
\* rest the bytes still in the reader
RECURSIVE ReadCharsLoop(_, _, _, _)
ReadCharsLoop(acc, buf, rest, n) ==
    IF ~(CharsCount(acc) < n /\ buf # <<>>)
    THEN [out |-> acc, rest |-> rest]
    ELSE LET v == ValidUpTo(buf) IN
         IF v = Len(buf)
         THEN [out |-> acc \o buf, rest |-> rest]
         ELSE LET acc2 == acc \o SubSeq(buf, 1, v)
                  buf2 == SubSeq(buf, v + 1, Len(buf))
              IN IF CharsCount(acc2) < n
                 THEN LET more == Read(rest, n - CharsCount(acc2))
                      IN IF more.bytes = <<>>
                         THEN [out |-> acc2, rest |-> rest]
                         ELSE ReadCharsLoop(acc2, buf2 \o more.bytes,
                                            more.rest, n)
                 ELSE ReadCharsLoop(acc2, buf2, rest, n)

\* read_chars(reader, n): a first read of n bytes, then the loop
read_chars(rest, n) ==
    LET first == Read(rest, n)
    IN ReadCharsLoop(<<>>, first.bytes, first.rest, n)

\* a stream of valid UTF-8 text and a character count are chosen ...
InitText ==
    /\ text \in Texts
    /\ reader = Encode(text)
    /\ count \in CharCounts
    /\ result = NotRun
    /\ InitServer /\ LinesIdle /\ IoIdle

\* ... and read_chars is called on them
ReadChars ==
    /\ ~result.done
    /\ LET r == read_chars(reader, count) IN
        /\ result' = Returned(r.out)
        /\ reader' = r.rest
    /\ UNCHANGED <<text, count, lines_vars, io_vars, server_vars>>

NextText == ReadChars
SpecText == InitText /\ [][NextText]_vars

\* ============================================== util/read_lines.rs (bytes)
MaxBuf == 5             \* longest buffer handed to split_lines, in bytes

\* LF, CR and two other bytes
LineBytes == {10, 13, 97, 98}
Buffers == UNION {[1 .. k -> LineBytes] : k \in 0 .. MaxBuf}

\* the predicate of split: b'\n', 0x0D or 0x0A
IsSeparator(x) == x = 10 \/ x = 13 \/ x = 10

\* slice::split: the pieces between the separators, empty ones included
\* (one piece more than there are separators)
RECURSIVE Split(_, _)
Split(buf, piece) ==
    IF buf = <<>> THEN <<piece>>
    ELSE IF IsSeparator(Head(buf)) THEN <<piece>> \o Split(Tail(buf), <<>>)
    ELSE Split(Tail(buf), Append(piece, Head(buf)))

\* the predicate of filter: !x.is_empty()
KeepAll(x) == TRUE
NonEmpty(x) == x # <<>>

split_lines(buf) == SelectSeq(Split(buf, <<>>), NonEmpty)

\* a buffer is chosen ...
InitLines ==
    /\ buffer \in Buffers
    /\ lines = NotRun
    /\ InitServer /\ TextIdle /\ IoIdle

\* ... and split_lines is called on it
SplitLines ==
    /\ ~lines.done
    /\ lines' = Returned(split_lines(buffer))
    /\ UNCHANGED <<buffer, text_vars, io_vars, server_vars>>

NextLines == SplitLines
SpecLines == InitLines /\ [][NextLines]_vars

\* ============================ one client, one Update handle, with contents
\* file_open(path, Update, type), then file_write, file_seek and file_read
\* on the descriptor, one call at a time: no guard or lock of
\* do_mut_operation is ever waited for, and each call is one step.
MaxDisk == 3            \* largest file length and file position, in bytes
MaxTrail == 3           \* calls remembered

InitialDisks == {<<>>, <<98>>}                \* the file before it is opened
Writes == {<<97>>, <<195, 169, 97>>}          \* data of file_write
IoSeeks == {<<0, 0>>, <<0, -1>>, <<1, 1>>, <<2, 0>>}    \* <<whence, offset>>
IoCounts == 0 .. MaxDisk                      \* num_bytes of file_read

RECURSIVE Zeros(_)
Zeros(k) == IF k <= 0 THEN <<>> ELSE <<0>> \o Zeros(k - 1)

\* the bytes of the file from position pos on
Remaining(data, pos) ==
    IF pos >= Len(data) THEN <<>> ELSE SubSeq(data, pos + 1, Len(data))

\* read_generic(file, n, file_type): the bytes returned and the position left
read_generic(data, pos, n, type) ==
    IF type = "Binary"
    THEN LET r == Read(Remaining(data, pos), n)
         IN [out |-> r.bytes \o Zeros(n - Len(r.bytes)),
             pos |-> pos + Len(r.bytes)]
    ELSE LET r == read_chars(Remaining(data, pos), n)
         IN [out |-> r.out,
             pos |-> pos + Len(Remaining(data, pos)) - Len(r.rest)]

\* file.write(&data) at position pos of a file opened for reading and writing
WriteAt(data, pos, d) ==
    LET before == IF pos <= Len(data) THEN SubSeq(data, 1, pos)
                  ELSE data \o Zeros(pos - Len(data))
    IN before \o d \o Remaining(data, pos + Len(d))

NoEntry == [op |-> "-", at |-> 0, data |-> <<>>, whence |-> 0, offset |-> 0,
            n |-> 0, out |-> <<>>]
Remember(e) ==
    LET all == Append(trail, e)
    IN IF Len(all) > MaxTrail THEN Tail(all) ELSE all

\* a file exists and no descriptor is open
InitIo ==
    /\ disk \in InitialDisks
    /\ upd_file = NoFile
    /\ trail = <<>>
    /\ InitServer /\ TextIdle /\ LinesIdle

\* file_open(0, path, Update, type): read(true).write(true), position 0
IoOpen ==
    \E ty \in FileOpenType :
        /\ ~upd_file.open
        /\ upd_file' = [open |-> TRUE, pos |-> 0, type |-> ty]
        /\ UNCHANGED <<disk, trail, text_vars, lines_vars, server_vars>>

\* file_write(0, fd, d): Ok(()) whatever the write returned
IoWrite ==
    \E d \in Writes :
        /\ upd_file.open
        /\ upd_file.pos + Len(d) <= MaxDisk
        /\ disk' = WriteAt(disk, upd_file.pos, d)
        /\ upd_file' = [upd_file EXCEPT !.pos = @ + Len(d)]
        /\ trail' = Remember([NoEntry EXCEPT !.op = "file_write",
                                 !.at = upd_file.pos, !.data = d])
        /\ UNCHANGED <<text_vars, lines_vars, server_vars>>

\* file_seek(0, fd, offset, whence): Ok(()) whatever the seek returned; a
\* seek to a negative position fails and leaves the position
IoSeek ==
    \E sk \in IoSeeks :
        LET target == SeekTarget(upd_file, Len(disk), sk[1], sk[2]) IN
        /\ upd_file.open
        /\ ValidWhence(sk[1])
        /\ target <= MaxDisk
        /\ upd_file' = [upd_file EXCEPT !.pos = IF target >= 0 THEN target ELSE @]
        /\ trail' = Remember([NoEntry EXCEPT !.op = "file_seek",
                                 !.at = upd_file.pos, !.whence = sk[1],
                                 !.offset = sk[2]])
        /\ UNCHANGED <<disk, text_vars, lines_vars, server_vars>>

\* file_read(0, fd, k): Ok(read_generic(file, k, type))
IoRead ==
    \E k \in IoCounts :
        LET r == read_generic(disk, upd_file.pos, k, upd_file.type) IN
        /\ upd_file.open
        /\ upd_file' = [upd_file EXCEPT !.pos = r.pos]
        /\ trail' = Remember([NoEntry EXCEPT !.op = "file_read",
                                 !.at = upd_file.pos, !.n = k, !.out = r.out])
        /\ UNCHANGED <<disk, text_vars, lines_vars, server_vars>>

NextIo == IoOpen \/ IoWrite \/ IoSeek \/ IoRead
SpecIo == InitIo /\ [][NextIo]_vars

\* =================================================================== claims
Responded(t, op) == pc[t] = "done" /\ call[t].op = op
InFlight(t) == pc[t] \in {"op_file", "op_channel"}
\* the OS handle a handler's operation runs on, or waits for
Handle(t) ==
    IF pc[t] \in {"dmo_lock_file", "op_file"}
    THEN <<"file", call[t].fd, "-">>
    ELSE <<"proc", loc[t].proc_id, StreamOf(loc[t].table)>>
TablesWith(fd) ==
    {n \in {"files", "proc_stdin_ids", "proc_stdout_ids", "proc_stderr_ids"} :
        fd \in (IF n = "files" THEN DOMAIN files ELSE DOMAIN IndexTable(n))}

\* C1: every FileId handed out, to a plain file or to a process channel, is
\* larger than every FileId handed out before (so all are distinct and none is
\* issued again, also not after its file was closed), and the id a file_open
\* returns is the one handed to it.
C1_FileIdsStrictlyIncreasing ==
    /\ \A i, j \in DOMAIN issued : i < j => issued[i] < issued[j]
    /\ \A f \in closed : Cardinality({i \in DOMAIN issued : issued[i] = f}) = 1
    /\ \A t \in Threads :
          (Responded(t, "file_open") /\ res[t].tag = "ok")
             => /\ \E i \in DOMAIN issued : issued[i] = res[t].val
                /\ \A u \in Threads \ {t} : loc[u].file_id # res[t].val
C1_Witness ==
    /\ closed = {0}
    /\ issued = <<0, 1>>
    /\ \E t \in Threads : Responded(t, "file_open") /\ res[t] = Ok(1)

\* C2: once file_close(fd) has succeeded on a plain file, every file_read,
\* file_read_lines, file_seek (valid whence) and file_write on fd that
\* responds does so with InvalidFileDescriptor.
C2_ClosedFdIsInvalid ==
    \A t \in Threads :
        ( /\ pc[t] = "done"
          /\ call[t].op \in IoOps
          /\ call[t].env = 0
          /\ call[t].whence \in {0, 1, 2}
          /\ call[t].fd \in closed )
        => res[t] = Err("InvalidFileDescriptor")
C2_Witness ==
    \E t \in Threads :
        /\ Responded(t, "file_write")
        /\ call[t].env = 0
        /\ call[t].fd \in closed
        /\ res[t] = Err("InvalidFileDescriptor")

C4_StdoutChannelResolves ==
    \A t \in Threads :
        ( /\ Responded(t, "get_process_channel")
          /\ call[t].env = 0
          /\ call[t].chan = "Stdout"
          /\ call[t].pid \in DOMAIN processes
          /\ processes[call[t].pid].stdout )
        => /\ res[t].tag = "ok"
           /\ <<call[t].pid, "Stdout", res[t].val>> \in chan_alloc
           /\ <<call[t].pid, "Stdin", res[t].val>> \notin chan_alloc
           /\ <<call[t].pid, "Stderr", res[t].val>> \notin chan_alloc

\* C5: get_process_channel(pid, channel) answers InvalidProcessId when no
\* run_command returned pid, or when the process was started without piping
\* that channel.
C5_UnknownChannelRejected ==
    \A t \in Threads :
        ( /\ Responded(t, "get_process_channel")
          /\ call[t].env = 0
          /\ \/ call[t].pid \notin DOMAIN processes
             \/ ~\E f \in FdArgs : <<call[t].pid, call[t].chan, f>> \in chan_alloc )
        => res[t] = Err("InvalidProcessId")

\* C6: no two handlers execute their I/O operation on the same OS handle at
\* the same time, and in particular not two operations on one descriptor.
C6_SameDescriptorSerialized ==
    \A a, b \in Threads :
        (a # b /\ InFlight(a) /\ InFlight(b))
           => Handle(a) # Handle(b) /\ call[a].fd # call[b].fd
C6_Witness ==
    \E a, b \in Threads :
        /\ pc[a] = "op_file"
        /\ pc[b] = "dmo_lock_file"
        /\ call[a].fd = call[b].fd
        /\ call[a].op = "file_write"
        /\ call[b].op = "file_read"

\* C7: an operation in flight on one handle never keeps an operation on
\* another handle from acquiring it; in particular a file_write on a process's
\* stdin can acquire its handle while a file_read_lines on the stdout of the
\* same process is in flight.
C7_DifferentDescriptorsIndependent ==
    \A a, b \in Threads :
        ( /\ InFlight(a)
          /\ pc[b] \in {"dmo_lock_file", "dmo_lock_proc"}
          /\ Handle(a) # Handle(b) )
        => IF pc[b] = "dmo_lock_file"
           THEN a \notin files[call[b].fd].lock
           ELSE a \notin processes[loc[b].proc_id].lock

\* C8: while an operation on descriptor A is in flight its handler holds no
\* table lock that a file_open, a file_close of another descriptor or a
\* run_command is waiting for.
TableAwaited(t) ==
    CASE pc[t] \in {"open_insert_file", "close_file"} -> "files"
      [] pc[t] = "run_insert_id" -> run_command_index(loc[t].chan)
      [] pc[t] = "run_insert_proc" -> "processes"
C8_InFlightHoldsNoTableLock ==
    \A a, b \in Threads :
        ( /\ InFlight(a)
          /\ pc[b] \in {"open_insert_file", "close_file", "run_insert_id",
                         "run_insert_proc"}
          /\ pc[b] = "close_file" => call[b].fd # call[a].fd )
        => a \notin readers[TableAwaited(b)]

\* C9: every FileId is a key of at most one of the four descriptor tables.
C9_OneTablePerFileId ==
    \A fd \in 0 .. MaxFileId : Cardinality(TablesWith(fd)) <= 1
C9_Witness ==
    /\ DOMAIN files = {0}
    /\ DOMAIN proc_stdout_ids = {1}
    /\ 0 \in DOMAIN processes

\* C10: file_seek with environment 0 and a whence outside {0, 1, 2} is
\* answered with InvalidSeekWhence in its first step, whatever fd is, and that
\* step takes no lock and changes no table, file position or file.
C10_BadWhenceTouchesNothing ==
    [][\A t \in Threads :
         ( /\ pc[t] = "idle"
           /\ pc'[t] # "idle"
           /\ call'[t].op = "file_seek"
           /\ call'[t].env = 0
           /\ call'[t].whence \notin {0, 1, 2} )
         => /\ pc'[t] = "done"
            /\ res'[t] = Err("InvalidSeekWhence")
            /\ UNCHANGED <<server_state, readers>>]_vars
C10_Witness ==
    \E t \in Threads :
        /\ Responded(t, "file_seek")
        /\ call[t].env = 0
        /\ call[t].whence = 3
        /\ call[t].fd \in closed
        /\ res[t] = Err("InvalidSeekWhence")
        /\ \E fd \in DOMAIN files : files[fd].pos > 0

\* the first k characters of the text handed to read_chars, as bytes
Prefix(k) == Encode(SubSeq(text, 1, k))
\* the first read of `count` bytes ends inside a character
Straddles ==
    \E k \in 1 .. Len(text) :
        Len(Prefix(k - 1)) < count /\ count < Len(Prefix(k))

\* C13: read_chars(reader, n) on valid UTF-8 text returns exactly the first
\* min(n, characters in the stream) characters; it never returns fewer while
\* more are available.
C13_ReadCharsReturnsAllAsked ==
    result.done => result.out = Prefix(Min(count, Len(text)))

\* C14: read_chars(reader, n) returns a whole-character prefix of the text of
\* at most n characters: no character is split and none is added, also when
\* the bytes of a character straddle two reads.
C14_ReadCharsWholePrefix ==
    result.done =>
        \E k \in 0 .. Min(count, Len(text)) : result.out = Prefix(k)
C14_Witness ==
    /\ result.done
    /\ Straddles
    /\ count >= 2 /\ count <= Len(text)
    /\ result.out = Prefix(count)
    /\ \E i \in DOMAIN text : Len(text[i]) > 1

\* the maximal runs of bytes of the buffer that hold neither CR nor LF, as
\* pairs of first and last index
Runs ==
    LET sep(i) == buffer[i] \in {10, 13}
    IN {r \in (DOMAIN buffer) \X (DOMAIN buffer) :
          /\ r[1] <= r[2]
          /\ \A i \in r[1] .. r[2] : ~sep(i)
          /\ r[1] = 1 \/ sep(r[1] - 1)
          /\ r[2] = Len(buffer) \/ sep(r[2] + 1)}

\* C15: split_lines returns, in stream order, exactly the maximal runs of
\* bytes that hold neither CR nor LF: one entry per run, none empty, none
\* with a separator, nothing for CR LF or for leading, trailing or repeated
\* separators.
C15_SplitLinesMaximalRuns ==
    lines.done =>
        /\ Len(lines.out) = Cardinality(Runs)
        /\ \A r \in Runs :
              lines.out[1 + Cardinality({q \in Runs : q[1] < r[1]})]
                 = SubSeq(buffer, r[1], r[2])
C15_Witness ==
    /\ lines.done
    /\ Len(buffer) = MaxBuf
    /\ buffer[1] \in {10, 13}
    /\ \E i \in 2 .. (MaxBuf - 1) : buffer[i] = 13 /\ buffer[i + 1] = 10
    /\ Len(lines.out) = 2

\* the last k calls of the Update session, oldest first
LastCalls(k) == SubSeq(trail, Len(trail) - k + 1, Len(trail))
\* the length of written data in the units file_read counts in: bytes on a
\* Binary descriptor, characters on a Text descriptor
Units(d) == IF upd_file.type = "Binary" THEN Len(d) ELSE CharsCount(d)

\* C11: on an Update descriptor of either type, file_write of B at the start,
\* file_seek(0, 0) and then file_read of at least len(B) units, on a file that
\* holds exactly B, returns exactly B.
C11_WriteSeekReadRoundTrip ==
    Len(trail) >= 3 =>
        LET c == LastCalls(3) IN
            (/\ c[1].op = "file_write" /\ c[1].at = 0
             /\ c[2].op = "file_seek" /\ c[2].whence = 0 /\ c[2].offset = 0
             /\ c[3].op = "file_read" /\ c[3].n >= Units(c[1].data)
             /\ disk = c[1].data)
                => c[3].out = c[1].data

\* C12: on an open readable plain file of either type, file_seek(fd, 0, 2)
\* followed by file_read(fd, n) returns an empty byte sequence, for every n.
C12_ReadAtEndIsEmpty ==
    Len(trail) >= 2 =>
        LET c == LastCalls(2) IN
            (/\ c[1].op = "file_seek" /\ c[1].whence = 2 /\ c[1].offset = 0
             /\ c[2].op = "file_read")
                => c[2].out = <<>>

\* C16: file_is_readable and file_is_writable respond InvalidFileDescriptor
\* for every FileId that is not in the plain-file table at that moment,
\* closed descriptors included.
C16_ModeQueryNeedsOpenFile ==
    \A t \in Threads :
        (/\ Responded(t, "file_is_readable") \/ Responded(t, "file_is_writable")
         /\ call[t].env = 0
         /\ call[t].fd \notin DOMAIN files)
            => res[t] = Err("InvalidFileDescriptor")

\* C17: when the OS call of a file_write or file_seek on a plain file fails,
\* the handler responds with an error, not with success.
C17_OsFailureIsReported ==
    [][\A t \in Threads :
          (/\ pc[t] = "op_file" /\ pc'[t] = "done"
           /\ \/ /\ call[t].op = "file_write"
                 /\ ~os_write(files[call[t].fd], fs[files[call[t].fd].path],
                              call[t].n).ok
              \/ /\ call[t].op = "file_seek"
                 /\ ~os_seek(files[call[t].fd], fs[files[call[t].fd].path],
                             call[t].whence, call[t].offset).ok)
             => res'[t].tag = "err"]_vars

\* C18: file_tell and file_is_seekable in environment 0 respond with a value
\* or with an error of the taxonomy; the handler never ends without one.
C18_TellAndSeekableRespond ==
    \A t \in Threads :
        (/\ Responded(t, "file_tell") \/ Responded(t, "file_is_seekable")
         /\ call[t].env = 0)
            => res[t].tag \in {"ok", "err"}

\* C19: when run_command has responded with a ProcessId, the FileId allocated
\* for each piped channel of that process is a key of that channel's own
\* index table and maps to the ProcessId.
C19_ChannelIdInOwnIndex ==
    \A t \in Threads :
        (Responded(t, "run_command") /\ res[t].tag = "ok") =>
            \A a \in chan_alloc :
                a[1] = res[t].val =>
                    /\ a[3] \in DOMAIN ChannelTable(a[2])
                    /\ ChannelTable(a[2])[a[3]] = a[1]

\* C20: a file_close racing with an I/O operation on the same descriptor is
\* ordered before or after it: an operation that holds or waits for the
\* handle of a plain file finds it in the file table, never released by a
\* close, and one that responds after a successful close of that descriptor
\* has not run, it responds InvalidFileDescriptor.
C20_CloseLinearizedWithIo ==
    \A t \in Threads :
        /\ pc[t] \in {"dmo_lock_file", "op_file"}
              => call[t].fd \in DOMAIN files /\ call[t].fd \notin closed
        /\ (/\ pc[t] = "done" /\ call[t].op \in IoOps /\ res[t].tag = "ok"
            /\ loc[t].table = "-")
              => call[t].fd \notin closed
C20_Witness ==
    \E t, u \in Threads :
        /\ pc[t] = "op_file"
        /\ pc[u] = "close_file"
        /\ call[u].fd = call[t].fd

\* the FileIds recorded for process channels
ChannelIds ==
    DOMAIN proc_stdin_ids \cup DOMAIN proc_stdout_ids \cup DOMAIN proc_stderr_ids

\* C21: a file_read on the FileId of a process channel always responds with
\* an error (no type is recorded for such an id, so nothing is read).
C21_ChannelReadFails ==
    \A t \in Threads :
        (/\ Responded(t, "file_read")
         /\ call[t].env = 0
         /\ call[t].fd \in ChannelIds)
            => res[t].tag = "err"

\* C22: a file_open whose OS open fails (here: Read mode on a path that does
\* not exist) responds IoError and leaves counters, tables and files as they
\* were; a file_open that responds with an id has recorded its mode and its
\* type under that id, and its handle (which only a file_close removes).
C22_OpenFailsCleanlyOrRecordsAll ==
    [][\A t \in Threads :
          /\ (/\ pc[t] = "idle" /\ call'[t].op = "file_open"
              /\ call'[t].env = 0 /\ call'[t].mode = "Read"
              /\ fs[call'[t].path] = -1)
                => /\ pc'[t] = "done"
                   /\ res'[t] = Err("IoError")
          /\ (/\ pc[t] # "done" /\ pc'[t] = "done"
              /\ call'[t].op = "file_open" /\ res'[t].tag = "err")
                => UNCHANGED server_state
          /\ (/\ pc[t] # "done" /\ pc'[t] = "done"
              /\ call'[t].op = "file_open" /\ res'[t].tag = "ok")
                => LET id == res'[t].val IN
                   /\ id \in DOMAIN file_modes'
                   /\ file_modes'[id] = call'[t].mode
                   /\ id \in DOMAIN file_types'
                   /\ file_types'[id] = call'[t].type
                   /\ id \in DOMAIN files' \/ id \in closed']_vars
C22_Witness ==
    \E t \in Threads :
        /\ Responded(t, "file_open")
        /\ call[t].env = 0
        /\ res[t] = Err("IoError")
        /\ next_file_id = 0 /\ files = Empty

\* C23: the OS open of a file_open in Write mode truncates the file: right
\* after it the file has length 0, also when the file existed with content.
C23_WriteModeTruncates ==
    [][\A t \in Threads :
          (/\ pc[t] = "idle" /\ pc'[t] = "open_take_id"
           /\ call'[t].mode = "Write")
             => fs'[call'[t].path] = 0]_vars

\* C24: in every reachable state every FileId of the plain-file table has an
\* entry in the mode table and in the type table, so that a file_read which
\* ran on a plain file never responds IoError for want of a type.
C24_FileHasModeAndType ==
    /\ DOMAIN files \subseteq DOMAIN file_modes
    /\ DOMAIN files \subseteq DOMAIN file_types
    /\ \A t \in Threads :
          (/\ Responded(t, "file_read") /\ res[t] = Err("IoError")
           /\ call[t].fd \in DOMAIN files)
             => call[t].fd \in DOMAIN file_types

\* C25: in every reachable state every FileId of a channel-index table maps
\* to a ProcessId of the process table whose process has that table's stream
\* piped, so that no read, read_lines, seek or write ends in a failed unwrap.
C25_ChannelIndexResolves ==
    /\ \A name \in IndexOrder :
          \A fd \in DOMAIN IndexTable(name) :
              /\ IndexTable(name)[fd] \in DOMAIN processes
              /\ HasStream(processes[IndexTable(name)[fd]], StreamOf(name))
    /\ \A t \in Threads :
          (pc[t] = "done" /\ call[t].op \in IoOps) => res[t].tag # "panic"

\* the threads a waiting handler waits for: the holder of the handle it wants
\* to lock, or the holders of the read guards of the table it wants to write
WaitsFor(t) ==
    CASE pc[t] = "dmo_lock_file" -> files[call[t].fd].lock
      [] pc[t] = "dmo_lock_proc" -> processes[loc[t].proc_id].lock
      [] pc[t] \in {"open_insert_file", "close_file"} -> readers["files"]
      [] pc[t] = "open_insert_mode" -> readers["file_modes"]
      [] pc[t] = "open_insert_type" -> readers["file_types"]
      [] pc[t] = "run_insert_id" -> readers[run_command_index(loc[t].chan)]
      [] pc[t] = "run_insert_proc" -> readers["processes"]
      [] OTHER -> {}

====
